---- MODULE Spec2Model ----
(***************************************************************************)
(* A model of scripts/run_deepvariant.py: the argument-dictionary helpers, *)
(* the command renderer, the three stage command builders and main's       *)
(* sequential execution of the three stages.                               *)
(*                                                                         *)
(* A Python str is a sequence of one-character strings, so that split,     *)
(* lower, startswith, sorted and join are computed, not assumed.  A Python *)
(* value is a record [t, v]: t is the type name and v the text str() gives *)
(* for it.  A dict is the sequence of its <<key, value>> items in          *)
(* insertion order, with unique keys.                                      *)
(***************************************************************************)
EXTENDS Integers, Sequences, FiniteSets, TLC

VARIABLES
    FLAGS,          \* the parsed command-line flags (a record)
    pc,             \* main's position
    fs,             \* the directories that exist
    intermediate_results_dir,   \* main's local; None until resolved
    commands,       \* main's local list of command strings
    next_cmd,       \* index of the loop over commands
    running,        \* 0, or the stage whose subprocess is running
    started,        \* the stages whose subprocess was started, in order
    exited,         \* the exit statuses of the finished subprocesses, in order
    stdout,         \* what print() wrote (a sequence of strings)
    stderr,         \* what sys.stderr.write wrote (a sequence of strings)
    exit_status,    \* the status main ended with; -1 while running
    call,           \* function harness: the function applied and its arguments
    ret             \* function harness: what the function returned

vars == <<FLAGS, pc, fs, intermediate_results_dir, commands, next_cmd, running,
          started, exited, stdout, stderr, exit_status, call, ret>>

mainVars == <<FLAGS, pc, fs, intermediate_results_dir, commands, next_cmd,
              running, started, exited, stdout, stderr, exit_status>>

(***************************************************************************)
(* Characters and strings                                                  *)
(***************************************************************************)
\* The printable ASCII characters in code-point order, 32 .. 126 (the grave
\* accent, 96, cannot be written in a string here and is spelled out).
Ascii == <<" ","!","\"","#","$","%","&","'","(",")","*","+",",","-",".","/",
    "0","1","2","3","4","5","6","7","8","9",":",";","<","=",">","?","@",
    "A","B","C","D","E","F","G","H","I","J","K","L","M","N","O","P","Q","R",
    "S","T","U","V","W","X","Y","Z","[","\\","]","^","_","GRAVE",
    "a","b","c","d","e","f","g","h","i","j","k","l","m","n","o","p","q","r",
    "s","t","u","v","w","x","y","z","{","|","}","~">>

ord(c) == IF c = "\n" THEN 10
          ELSE 31 + (CHOOSE i \in 1..Len(Ascii) : Ascii[i] = c)

chr(n) == IF n = 10 THEN "\n" ELSE Ascii[n - 31]

\* str.lower() on ASCII text
lower(s) == [i \in 1..Len(s) |->
               IF ord(s[i]) >= 65 /\ ord(s[i]) <= 90
               THEN chr(ord(s[i]) + 32) ELSE s[i]]

\* str.startswith / str.endswith with a one-character argument
startswith(s, c) == Len(s) > 0 /\ s[1] = c

endswith(s, c) == Len(s) > 0 /\ s[Len(s)] = c

\* str.split(sep) with a one-character separator: always at least one field.
\* seps are the positions of the separator, start where the next field begins.
RECURSIVE split_from(_, _, _)
split_from(s, seps, start) ==
    IF \A p \in seps : p < start THEN <<SubSeq(s, start, Len(s))>>
    ELSE LET p == CHOOSE q \in seps :
                      q >= start /\ \A r \in seps : r >= start => q <= r
         IN  <<SubSeq(s, start, p - 1)>> \o split_from(s, seps, p + 1)

split(s, sep) == split_from(s, {i \in 1..Len(s) : s[i] = sep}, 1)

\* sep.join(parts)
RECURSIVE join(_, _)
join(sep, parts) ==
    IF parts = <<>> THEN <<>>
    ELSE IF Len(parts) = 1 THEN parts[1]
    ELSE parts[1] \o sep \o join(sep, Tail(parts))

\* a < b for str: lexicographic by code point
RECURSIVE str_lt(_, _)
str_lt(a, b) ==
    IF b = <<>> THEN FALSE
    ELSE IF a = <<>> THEN TRUE
    ELSE IF a[1] = b[1] THEN str_lt(Tail(a), Tail(b))
    ELSE ord(a[1]) < ord(b[1])

\* sorted(keys) for a set of distinct str keys
RECURSIVE sorted(_)
sorted(S) ==
    IF S = {} THEN <<>>
    ELSE LET m == CHOOSE x \in S : \A y \in S \ {x} : str_lt(x, y)
         IN  <<m>> \o sorted(S \ {m})

\* '{}'.format(n) for an int
RECURSIVE digits(_)
digits(n) == IF n < 10 THEN <<chr(48 + n)>>
             ELSE digits(n \div 10) \o <<chr(48 + (n % 10))>>

int_str(n) == IF n < 0 THEN <<"-">> \o digits(0 - n) ELSE digits(n)

(***************************************************************************)
(* Python values                                                           *)
(***************************************************************************)
lit_time == <<"t","i","m","e">>

lit_seq_prefix == <<"s","e","q"," ","0"," ">>

lit_seq_suffix == <<" ","|">>

lit_parallel == <<"p","a","r","a","l","l","e","l"," ","-","q"," ","-","-","h",
    "a","l","t"," ","2"," ","-","-","l","i","n","e","-","b","u","f","f","e",
    "r">>

lit_make_examples_bin == <<"/","o","p","t","/","d","e","e","p","v","a","r",
    "i","a","n","t","/","b","i","n","/","m","a","k","e","_","e","x","a","m",
    "p","l","e","s">>

lit_call_variants_bin == <<"/","o","p","t","/","d","e","e","p","v","a","r",
    "i","a","n","t","/","b","i","n","/","c","a","l","l","_","v","a","r","i",
    "a","n","t","s">>

lit_postprocess_variants_bin == <<"/","o","p","t","/","d","e","e","p","v","a",
    "r","i","a","n","t","/","b","i","n","/","p","o","s","t","p","r","o","c",
    "e","s","s","_","v","a","r","i","a","n","t","s">>

opt_mode == <<"-","-","m","o","d","e">>

lit_calling == <<"c","a","l","l","i","n","g">>

opt_ref == <<"-","-","r","e","f">>

opt_reads == <<"-","-","r","e","a","d","s">>

opt_examples == <<"-","-","e","x","a","m","p","l","e","s">>

lit_task == <<"-","-","t","a","s","k"," ","{","}">>

opt_outfile == <<"-","-","o","u","t","f","i","l","e">>

opt_checkpoint == <<"-","-","c","h","e","c","k","p","o","i","n","t">>

opt_infile == <<"-","-","i","n","f","i","l","e">>

opt_nonvariant_site_tfrecord_path == <<"-","-","n","o","n","v","a","r","i",
    "a","n","t","_","s","i","t","e","_","t","f","r","e","c","o","r","d","_",
    "p","a","t","h">>

opt_gvcf_outfile == <<"-","-","g","v","c","f","_","o","u","t","f","i","l",
    "e">>

opt_novcf_stats_report == <<"-","-","n","o","v","c","f","_","s","t","a","t",
    "s","_","r","e","p","o","r","t">>

opt_sample_name == <<"-","-","s","a","m","p","l","e","_","n","a","m","e">>

key_realign_reads == <<"r","e","a","l","i","g","n","_","r","e","a","d","s">>

key_vsc_min_fraction_indels == <<"v","s","c","_","m","i","n","_","f","r","a",
    "c","t","i","o","n","_","i","n","d","e","l","s">>

key_alt_aligned_pileup == <<"a","l","t","_","a","l","i","g","n","e","d","_",
    "p","i","l","e","u","p">>

lit_diff_channels == <<"d","i","f","f","_","c","h","a","n","n","e","l","s">>

lit_0_12 == <<"0",".","1","2">>

key_gvcf == <<"g","v","c","f">>

key_regions == <<"r","e","g","i","o","n","s">>

key_sample_name == <<"s","a","m","p","l","e","_","n","a","m","e">>

lit_gvcf_tfrecord == <<"g","v","c","f",".","t","f","r","e","c","o","r","d",
    "@">>

lit_make_examples_tfrecord == <<"m","a","k","e","_","e","x","a","m","p","l",
    "e","s",".","t","f","r","e","c","o","r","d","@">>

lit_gz == <<".","g","z">>

lit_call_variants_output == <<"c","a","l","l","_","v","a","r","i","a","n","t",
    "s","_","o","u","t","p","u","t",".","t","f","r","e","c","o","r","d",".",
    "g","z">>

ckpt_WGS == <<"/","o","p","t","/","m","o","d","e","l","s","/","w","g","s","/",
    "m","o","d","e","l",".","c","k","p","t">>

ckpt_WES == <<"/","o","p","t","/","m","o","d","e","l","s","/","w","e","s","/",
    "m","o","d","e","l",".","c","k","p","t">>

ckpt_PACBIO == <<"/","o","p","t","/","m","o","d","e","l","s","/","p","a","c",
    "b","i","o","/","m","o","d","e","l",".","c","k","p","t">>

ckpt_HYBRID_PACBIO_ILLUMINA == <<"/","o","p","t","/","m","o","d","e","l","s",
    "/","h","y","b","r","i","d","_","p","a","c","b","i","o","_","i","l","l",
    "u","m","i","n","a","/","m","o","d","e","l",".","c","k","p","t">>

lit_is_required == <<" ","i","s"," ","r","e","q","u","i","r","e","d",".",
    "\n">>

lit_help_line == <<"P","a","s","s"," ","-","-","h","e","l","p","s","h","o",
    "r","t"," ","o","r"," ","-","-","h","e","l","p","f","u","l","l"," ","t",
    "o"," ","s","e","e"," ","h","e","l","p"," ","o","n"," ","f","l","a","g",
    "s",".","\n">>

lit_version_prefix == <<"D","e","e","p","V","a","r","i","a","n","t"," ","v",
    "e","r","s","i","o","n"," ">>

DEEP_VARIANT_VERSION == <<"1",".","0",".","0">>

lit_warning_prefix == <<"\n","W","a","r","n","i","n","g",":"," ","-","-">>

lit_warning_mid1 == <<" ","i","s"," ","p","r","e","v","i","o","u","s","l","y",
    " ","s","e","t"," ","t","o"," ">>

lit_warning_mid2 == <<","," ","n","o","w"," ","t","o"," ">>

lit_True == <<"T","r","u","e">>

lit_False == <<"F","a","l","s","e">>

lit_None == <<"N","o","n","e">>

mt_WGS == <<"W","G","S">>

mt_WES == <<"W","E","S">>

mt_PACBIO == <<"P","A","C","B","I","O">>

mt_HYBRID_PACBIO_ILLUMINA == <<"H","Y","B","R","I","D","_","P","A","C","B",
    "I","O","_","I","L","L","U","M","I","N","A">>

lit_model_type == <<"m","o","d","e","l","_","t","y","p","e">>

lit_ref == <<"r","e","f">>

lit_reads == <<"r","e","a","d","s">>

lit_output_vcf == <<"o","u","t","p","u","t","_","v","c","f">>

lit_intermediate_1 == <<"\n","*","*","*","*","*"," ","I","n","t","e","r","m",
    "e","d","i","a","t","e"," ","r","e","s","u","l","t","s"," ","w","i","l",
    "l"," ","b","e"," ","w","r","i","t","t","e","n"," ","t","o"," ">>

lit_intermediate_2 == <<" ","i","n"," ","d","o","c","k","e","r","."," ","*",
    "*","*","*","\n">>

lit_running_1 == <<"\n","*","*","*","*","*"," ","R","u","n","n","i","n","g",
    " ","t","h","e"," ","c","o","m","m","a","n","d",":","*","*","*","*","*",
    "\n">>

lit_true == <<"t","r","u","e">>

lit_false == <<"f","a","l","s","e">>

None == [t |-> "NoneType", v |-> lit_None]

Str(s) == [t |-> "str", v |-> s]

Bool(b) == [t |-> "bool", v |-> IF b THEN lit_True ELSE lit_False]

Float(text) == [t |-> "float", v |-> text]

\* '{}'.format(value)
format(value) == value.v

(***************************************************************************)
(* dict: a sequence of <<key, value>> items, keys unique, insertion order  *)
(***************************************************************************)
keys(d) == {d[i][1] : i \in 1..Len(d)}

has_key(d, k) == \E i \in 1..Len(d) : d[i][1] = k

get(d, k) == d[CHOOSE i \in 1..Len(d) : d[i][1] = k][2]

\* d[k] = v
set_item(d, k, v) ==
    IF has_key(d, k)
    THEN [i \in 1..Len(d) |-> IF d[i][1] = k THEN <<k, v>> ELSE d[i]]
    ELSE Append(d, <<k, v>>)

(***************************************************************************)
(* Quoting, parsing, merging and rendering of options                      *)
(***************************************************************************)
\* Mutant: a value that only starts with a quote counts as quoted.
_is_quoted_start_only(value) ==
    startswith(value, "\"") \/ startswith(value, "'")

_is_quoted(value) ==
    \/ startswith(value, "\"") /\ endswith(value, "\"")
    \/ startswith(value, "'") /\ endswith(value, "'")

_add_quotes(value) ==
    IF value.t = "str" /\ _is_quoted(value.v) THEN value
    ELSE Str(<<"\"">> \o format(value) \o <<"\"">>)

\* A function that can raise returns [raised, value]: raised is "" or the
\* exception's name, value the result when nothing was raised.
Return(value) == [raised |-> "", value |-> value]

Raise(exc) == [raised |-> exc, value |-> <<>>]

\* Mutant: only the lower-case words are booleans.
flag_value_of_exact(text) ==
    IF text = lit_true THEN Bool(TRUE)
    ELSE IF text = lit_false THEN Bool(FALSE)
    ELSE Str(text)

\* lines 152-156: the check for boolean values
flag_value_of(text) ==
    IF lower(text) = lit_true THEN Bool(TRUE)
    ELSE IF lower(text) = lit_false THEN Bool(FALSE)
    ELSE Str(text)

\* Mutant: a piece that is not name=value is skipped instead of raising.
RECURSIVE extra_args_loop_lenient(_, _)
extra_args_loop_lenient(args_dict, pairs) ==
    IF pairs = <<>> THEN Return(args_dict)
    ELSE LET fields == split(pairs[1], "=")
         IN  IF Len(fields) # 2
             THEN extra_args_loop_lenient(args_dict, Tail(pairs))
             ELSE extra_args_loop_lenient(
                      set_item(args_dict, fields[1], flag_value_of(fields[2])),
                      Tail(pairs))

\* lines 150-157: the loop over extra_args.split(','); the tuple unpacking
\* of extra_arg.split('=') raises ValueError unless there are two fields
RECURSIVE extra_args_loop(_, _)
extra_args_loop(args_dict, pairs) ==
    IF pairs = <<>> THEN Return(args_dict)
    ELSE LET fields == split(pairs[1], "=")
         IN  IF Len(fields) # 2 THEN Raise("ValueError")
             ELSE extra_args_loop(
                      set_item(args_dict, fields[1], flag_value_of(fields[2])),
                      Tail(pairs))

_extra_args_to_dict(extra_args) ==
    IF extra_args = None THEN Return(<<>>)
    ELSE extra_args_loop(<<>>, split(extra_args.v, ","))

\* lines 164-172: the tokens one key adds to the command
extend_one(key, value) ==
    IF value = None THEN <<>>
    ELSE IF value.t = "bool"
    THEN LET added_arg == (IF value = Bool(TRUE) THEN <<>> ELSE <<"n","o">>)
                          \o key
         IN  << <<"-","-">> \o added_arg >>
    ELSE << <<"-","-">> \o key, _add_quotes(value).v >>

RECURSIVE extend_loop(_, _, _)
extend_loop(command, ks, extra_args) ==
    IF ks = <<>> THEN command
    ELSE extend_loop(command \o extend_one(ks[1], get(extra_args, ks[1])),
                     Tail(ks), extra_args)

\* Mutant: the keys are taken in insertion order, not sorted.
_extend_command_by_args_dict_unsorted(command, extra_args) ==
    extend_loop(command, [i \in 1..Len(extra_args) |-> extra_args[i][1]],
                extra_args)

_extend_command_by_args_dict(command, extra_args) ==
    extend_loop(command, sorted(keys(extra_args)), extra_args)

\* line 179: the text of the warning
warning_text(k, old, v) ==
    lit_warning_prefix \o k \o lit_warning_mid1 \o format(old)
        \o lit_warning_mid2 \o format(v) \o <<".">>

\* line 178: whether the loop prints a warning for key k
warns(kwargs, k, v) == has_key(kwargs, k)

RECURSIVE update_loop(_, _, _)
update_loop(kwargs, items, printed) ==
    IF items = <<>> THEN [kwargs |-> kwargs, printed |-> printed]
    ELSE LET k == items[1][1]
             v == items[1][2]
         IN  update_loop(
                 set_item(kwargs, k, v), Tail(items),
                 IF warns(kwargs, k, v)
                 THEN Append(printed, warning_text(k, get(kwargs, k), v))
                 ELSE printed)

\* returns the updated kwargs and what was printed on the way
_update_kwargs_with_warning(kwargs, extra_args) ==
    update_loop(kwargs, extra_args, <<>>)

(***************************************************************************)
(* The stage command builders                                              *)
(***************************************************************************)
\* '"{}"'.format(value)
dq(value) == <<"\"">> \o format(value) \o <<"\"">>

\* lines 206-211: the defaults of the PACBIO model type
special_args == << <<key_realign_reads, Bool(FALSE)>>,
                   <<key_vsc_min_fraction_indels, Float(lit_0_12)>>,
                   <<key_alt_aligned_pileup, Str(lit_diff_channels)>> >>

\* Mutant: the PACBIO defaults are merged after the user's extra args.
make_examples_command_defaults_last(ref, reads, examples, extra_args, kwargs) ==
    LET command == << lit_time,
                      lit_seq_prefix \o int_str(FLAGS.num_shards - 1)
                          \o lit_seq_suffix,
                      lit_parallel, lit_make_examples_bin,
                      opt_mode, lit_calling,
                      opt_ref, dq(ref),
                      opt_reads, dq(reads),
                      opt_examples, dq(examples) >>
        parsed == _extra_args_to_dict(extra_args)
        u1 == _update_kwargs_with_warning(kwargs, parsed.value)
        u2 == IF FLAGS.model_type = Str(mt_PACBIO)
              THEN _update_kwargs_with_warning(u1.kwargs, special_args)
              ELSE [kwargs |-> u1.kwargs, printed |-> <<>>]
    IN  IF parsed.raised # ""
        THEN [raised |-> parsed.raised, value |-> <<>>, printed |-> <<>>]
        ELSE [raised |-> "",
              value |-> join(<<" ">>,
                             _extend_command_by_args_dict(command, u2.kwargs)
                                 \o <<lit_task>>),
              printed |-> u1.printed \o u2.printed]

\* A builder returns [raised, value, printed].
make_examples_command(ref, reads, examples, extra_args, kwargs) ==
    LET command == << lit_time,
                      lit_seq_prefix \o int_str(FLAGS.num_shards - 1)
                          \o lit_seq_suffix,
                      lit_parallel, lit_make_examples_bin,
                      opt_mode, lit_calling,
                      opt_ref, dq(ref),
                      opt_reads, dq(reads),
                      opt_examples, dq(examples) >>
        u1 == IF FLAGS.model_type = Str(mt_PACBIO)
              THEN _update_kwargs_with_warning(kwargs, special_args)
              ELSE [kwargs |-> kwargs, printed |-> <<>>]
        parsed == _extra_args_to_dict(extra_args)
        u2 == _update_kwargs_with_warning(u1.kwargs, parsed.value)
    IN  IF parsed.raised # ""
        THEN [raised |-> parsed.raised, value |-> <<>>, printed |-> u1.printed]
        ELSE [raised |-> "",
              value |-> join(<<" ">>,
                             _extend_command_by_args_dict(command, u2.kwargs)
                                 \o <<lit_task>>),
              printed |-> u1.printed \o u2.printed]

call_variants_command(outfile, examples, model_ckpt, extra_args) ==
    LET command == << lit_time, lit_call_variants_bin,
                      opt_outfile, dq(outfile),
                      opt_examples, dq(examples),
                      opt_checkpoint, dq(model_ckpt) >>
        parsed == _extra_args_to_dict(extra_args)
    IN  IF parsed.raised # ""
        THEN [raised |-> parsed.raised, value |-> <<>>, printed |-> <<>>]
        ELSE [raised |-> "",
              value |-> join(<<" ">>,
                             _extend_command_by_args_dict(command,
                                                          parsed.value)),
              printed |-> <<>>]

postprocess_variants_command(ref, infile, outfile, extra_args, nonvariant_site_tfrecord_path, gvcf_outfile, vcf_stats_report, sample_name) ==
    LET command ==
            << lit_time, lit_postprocess_variants_bin,
               opt_ref, dq(ref),
               opt_infile, dq(infile),
               opt_outfile, dq(outfile) >>
            \o (IF nonvariant_site_tfrecord_path # None
                THEN << opt_nonvariant_site_tfrecord_path,
                        dq(nonvariant_site_tfrecord_path) >>
                ELSE <<>>)
            \o (IF gvcf_outfile # None
                THEN <<opt_gvcf_outfile, dq(gvcf_outfile)>> ELSE <<>>)
            \o (IF vcf_stats_report # Bool(TRUE)
                THEN <<opt_novcf_stats_report>> ELSE <<>>)
            \o (IF sample_name # None
                THEN <<opt_sample_name, dq(sample_name)>> ELSE <<>>)
        parsed == _extra_args_to_dict(extra_args)
    IN  IF parsed.raised # ""
        THEN [raised |-> parsed.raised, value |-> <<>>, printed |-> <<>>]
        ELSE [raised |-> "",
              value |-> join(<<" ">>,
                             _extend_command_by_args_dict(command,
                                                          parsed.value)),
              printed |-> <<>>]

\* os.path.join(a, b) on POSIX
path_join(a, b) ==
    IF startswith(b, "/") THEN b
    ELSE IF a = <<>> \/ endswith(a, "/") THEN a \o b
    ELSE a \o <<"/">> \o b

MODEL_TYPE_MAP == << <<Str(mt_WGS), Str(ckpt_WGS)>>,
                     <<Str(mt_WES), Str(ckpt_WES)>>,
                     <<Str(mt_PACBIO), Str(ckpt_PACBIO)>>,
                     <<Str(mt_HYBRID_PACBIO_ILLUMINA),
                       Str(ckpt_HYBRID_PACBIO_ILLUMINA)>> >>

\* Mutant: the table wins over customized_model for a listed model type.
get_model_ckpt_table_first(model_type, customized_model) ==
    IF has_key(MODEL_TYPE_MAP, model_type)
    THEN Return(get(MODEL_TYPE_MAP, model_type))
    ELSE IF customized_model # None THEN Return(customized_model)
    ELSE Raise("KeyError")

get_model_ckpt(model_type, customized_model) ==
    IF customized_model # None THEN Return(customized_model)
    ELSE IF has_key(MODEL_TYPE_MAP, model_type)
    THEN Return(get(MODEL_TYPE_MAP, model_type))
    ELSE Raise("KeyError")

\* Mutant: the gVCF records path is set whether or not output_gvcf is.
nonvariant_site_path_always(dir) ==
    Str(path_join(dir.v, lit_gvcf_tfrecord \o int_str(FLAGS.num_shards)
                             \o lit_gz))

\* lines 298-306: the derived paths
nonvariant_site_path(dir) ==
    IF FLAGS.output_gvcf # None
    THEN Str(path_join(dir.v, lit_gvcf_tfrecord \o int_str(FLAGS.num_shards)
                                  \o lit_gz))
    ELSE None

examples_path(dir) ==
    Str(path_join(dir.v, lit_make_examples_tfrecord
                             \o int_str(FLAGS.num_shards) \o lit_gz))

call_variants_output_path(dir) ==
    Str(path_join(dir.v, lit_call_variants_output))

\* returns [raised, value, printed]; value is the list of three commands
create_all_commands(dir) ==
    LET nonvariant_site_tfrecord_path == nonvariant_site_path(dir)
        examples == examples_path(dir)
        c1 == make_examples_command(
                  FLAGS.ref, FLAGS.reads, examples,
                  FLAGS.make_examples_extra_args,
                  << <<key_gvcf, nonvariant_site_tfrecord_path>>,
                     <<key_regions, FLAGS.regions>>,
                     <<key_sample_name, FLAGS.sample_name>> >>)
        call_variants_output == call_variants_output_path(dir)
        model_ckpt == get_model_ckpt(FLAGS.model_type, FLAGS.customized_model)
        c2 == call_variants_command(call_variants_output, examples,
                                    model_ckpt.value,
                                    FLAGS.call_variants_extra_args)
        c3 == postprocess_variants_command(
                  FLAGS.ref, call_variants_output, FLAGS.output_vcf,
                  FLAGS.postprocess_variants_extra_args,
                  nonvariant_site_tfrecord_path, FLAGS.output_gvcf,
                  FLAGS.vcf_stats_report, FLAGS.sample_name)
        fail(exc) == [raised |-> exc, value |-> <<>>, printed |-> c1.printed]
    IN  IF c1.raised # "" THEN fail(c1.raised)
        ELSE IF model_ckpt.raised # "" THEN fail(model_ckpt.raised)
        ELSE IF c2.raised # "" THEN fail(c2.raised)
        ELSE IF c3.raised # "" THEN fail(c3.raised)
        ELSE [raised |-> "", value |-> <<c1.value, c2.value, c3.value>>,
              printed |-> c1.printed]

(***************************************************************************)
(* The flags main can be started with                                      *)
(***************************************************************************)
\* The most optional flags given a non-default value in one run.
MaxOptional == 2

\* The largest --num_shards.
MaxShards == 2

\* The largest exit status of a stage's subprocess.
MaxExitStatus == 1

RequiredFlags == <<"model_type", "ref", "reads", "output_vcf">>

OptionalFlags == {"intermediate_results_dir", "version", "customized_model",
                  "num_shards", "regions", "sample_name",
                  "make_examples_extra_args", "call_variants_extra_args",
                  "postprocess_variants_extra_args", "output_gvcf",
                  "vcf_stats_report"}

\* lines 52-53: the values DEFINE_enum accepts
ModelTypes == {Str(mt_WGS), Str(mt_WES), Str(mt_PACBIO),
               Str(mt_HYBRID_PACBIO_ILLUMINA)}

\* The directory that exists before the run, and the one mkdtemp can make.
ExistingDir == <<"/","d">>

TempDirs == { <<"/","t">> }

\* A flag's default (lines 52-117).
FlagDefault(f) ==
    IF f = "num_shards" THEN 1
    ELSE IF f = "vcf_stats_report" THEN Bool(TRUE)
    ELSE None

MakeExamplesExtraArgs ==
    { Str(key_realign_reads \o <<"=">> \o lit_true),
      Str(key_realign_reads \o <<"=">> \o lit_false),
      Str(key_vsc_min_fraction_indels \o <<"=","0",".","2">>),
      Str(key_alt_aligned_pileup \o <<"=","r","o","w","s">>),
      Str(key_realign_reads \o <<"=","T","r","u","e",",">>
              \o key_alt_aligned_pileup \o <<"=","r","o","w","s">>),
      Str(key_gvcf \o <<"=","x">>),
      Str(key_regions \o <<"=","c","h","r","1">>),
      Str(key_realign_reads),
      Str(key_alt_aligned_pileup \o <<"=","a","=","b">>) }

CallVariantsExtraArgs ==
    { Str(<<"u","s","e","_","t","p","u","=","t","r","u","e">>),
      Str(<<"e","x","a","m","p","l","e","s","=","e">>),
      Str(<<"u","s","e","_","t","p","u">>),
      Str(<<>>) }

PostprocessVariantsExtraArgs ==
    { Str(<<"q","u","a","l","_","f","i","l","t","e","r","=","1",".","5">>),
      Str(<<"i","n","f","i","l","e","=","i">>),
      Str(<<"q","u","a","l","_","f","i","l","t","e","r","=","1","=","5">>) }

\* The values a flag is given on the command line, other than its default.
FlagGiven(f) ==
    CASE f = "intermediate_results_dir" -> {Str(ExistingDir), Str(<<"/","n">>)}
      [] f = "version" -> {Bool(TRUE)}
      [] f = "customized_model" -> {Str(<<"/","m">>)}
      [] f = "num_shards" -> 2..MaxShards
      [] f = "regions" -> {Str(<<"c">>), Str(<<"'","c","'">>)}
      [] f = "sample_name" -> {Str(<<"s">>)}
      [] f = "make_examples_extra_args" -> MakeExamplesExtraArgs
      [] f = "call_variants_extra_args" -> CallVariantsExtraArgs
      [] f = "postprocess_variants_extra_args" -> PostprocessVariantsExtraArgs
      [] f = "output_gvcf" -> {Str(<<"g">>)}
      [] f = "vcf_stats_report" -> {Bool(FALSE)}

FlagChoices(f, given) ==
    IF f \in given THEN FlagGiven(f) ELSE {FlagDefault(f)}

\* The flag records with the optional flags of `given` set and the
\* model type drawn from `types`.
FlagRecords(given, types) ==
    [ model_type : types,
      ref : {None, Str(<<"r">>)},
      reads : {None, Str(<<"b">>)},
      output_vcf : {None, Str(<<"v">>)},
      intermediate_results_dir : FlagChoices("intermediate_results_dir", given),
      version : FlagChoices("version", given),
      customized_model : FlagChoices("customized_model", given),
      num_shards : FlagChoices("num_shards", given),
      regions : FlagChoices("regions", given),
      sample_name : FlagChoices("sample_name", given),
      make_examples_extra_args : FlagChoices("make_examples_extra_args", given),
      call_variants_extra_args : FlagChoices("call_variants_extra_args", given),
      postprocess_variants_extra_args :
          FlagChoices("postprocess_variants_extra_args", given),
      output_gvcf : FlagChoices("output_gvcf", given),
      vcf_stats_report : FlagChoices("vcf_stats_report", given) ]

NoCall == [fn |-> "none"]

InitMain(types) ==
    /\ \E given \in SUBSET OptionalFlags :
          /\ Cardinality(given) <= MaxOptional
          /\ FLAGS \in FlagRecords(given, types)
    /\ pc = "main"
    /\ fs = {ExistingDir}
    /\ intermediate_results_dir = None
    /\ commands = <<>>
    /\ next_cmd = 0
    /\ running = 0
    /\ started = <<>>
    /\ exited = <<>>
    /\ stdout = <<>>
    /\ stderr = <<>>
    /\ exit_status = -1
    /\ call = NoCall
    /\ ret = <<>>

Init == InitMain(ModelTypes \cup {None})

(***************************************************************************)
(* main                                                                    *)
(***************************************************************************)
\* FLAGS.get_flag_value(flag_key, None)
get_flag_value(flag_key) ==
    CASE flag_key = "model_type" -> FLAGS.model_type
      [] flag_key = "ref" -> FLAGS.ref
      [] flag_key = "reads" -> FLAGS.reads
      [] flag_key = "output_vcf" -> FLAGS.output_vcf

\* the flag's name as text
flag_text(flag_key) ==
    CASE flag_key = "model_type" -> lit_model_type
      [] flag_key = "ref" -> lit_ref
      [] flag_key = "reads" -> lit_reads
      [] flag_key = "output_vcf" -> lit_output_vcf

\* Mutant: the last flag of the list is not looked at.
missing_flags_skips_last ==
    {i \in 1..(Len(RequiredFlags) - 1) :
        get_flag_value(RequiredFlags[i]) = None}

\* lines 346-347: the positions in the list of the flags that are unset
missing_flags == {i \in 1..Len(RequiredFlags) :
                     get_flag_value(RequiredFlags[i]) = None}

\* lines 342-344: --version prints the version and returns
MainVersion ==
    /\ pc = "main"
    /\ FLAGS.version = Bool(TRUE)
    /\ stdout' = Append(stdout, lit_version_prefix \o DEEP_VARIANT_VERSION)
    /\ pc' = "returned"
    /\ exit_status' = 0
    /\ UNCHANGED <<FLAGS, fs, intermediate_results_dir, commands, next_cmd,
                   running, started, exited, stderr, call, ret>>

\* lines 346-350: the first unset required flag ends the run with status 1
MainMissingFlag ==
    /\ pc = "main"
    /\ FLAGS.version # Bool(TRUE)
    /\ missing_flags # {}
    /\ LET i == CHOOSE m \in missing_flags : \A n \in missing_flags : m <= n
       IN  stderr' = stderr \o
                     << <<"-","-">> \o flag_text(RequiredFlags[i])
                            \o lit_is_required,
                        lit_help_line >>
    /\ pc' = "exited"
    /\ exit_status' = 1
    /\ UNCHANGED <<FLAGS, fs, intermediate_results_dir, commands, next_cmd,
                   running, started, exited, stdout, call, ret>>

\* lines 346-350 when every required flag is set
MainValidated ==
    /\ pc = "main"
    /\ FLAGS.version # Bool(TRUE)
    /\ missing_flags = {}
    /\ pc' = "check_dir"
    /\ UNCHANGED <<FLAGS, fs, intermediate_results_dir, commands, next_cmd,
                   running, started, exited, stdout, stderr, exit_status,
                   call, ret>>

\* lines 352-354 with check_or_create_intermediate_results_dir, lines
\* 263-274: mkdtemp makes a new directory, makedirs a missing one.
\* check_flags only logs.
CheckOrCreateDir ==
    /\ pc = "check_dir"
    /\ IF FLAGS.intermediate_results_dir = None
       THEN \E d \in TempDirs \ fs :
               /\ intermediate_results_dir' = Str(d)
               /\ fs' = fs \cup {d}
       ELSE /\ intermediate_results_dir' = FLAGS.intermediate_results_dir
            /\ fs' = fs \cup {FLAGS.intermediate_results_dir.v}
    /\ pc' = "create_commands"
    /\ UNCHANGED <<FLAGS, commands, next_cmd, running, started, exited,
                   stdout, stderr, exit_status, call, ret>>

\* lines 356-358: an exception of create_all_commands leaves main
CreateCommands ==
    /\ pc = "create_commands"
    /\ LET r == create_all_commands(intermediate_results_dir)
       IN  IF r.raised # ""
           THEN /\ stdout' = stdout \o r.printed
                /\ stderr' = Append(stderr, r.raised)
                /\ commands' = commands
                /\ next_cmd' = next_cmd
                /\ pc' = "raised"
                /\ exit_status' = 1
           ELSE /\ stdout' = (stdout \o r.printed)
                        \o << lit_intermediate_1
                                  \o format(intermediate_results_dir)
                                  \o lit_intermediate_2 >>
                /\ stderr' = stderr
                /\ commands' = r.value
                /\ next_cmd' = 1
                /\ pc' = "loop"
                /\ exit_status' = exit_status
    /\ UNCHANGED <<FLAGS, fs, intermediate_results_dir, running, started,
                   exited, call, ret>>

\* lines 359-362: the next command is printed and its subprocess started
StartStage ==
    /\ pc = "loop"
    /\ next_cmd <= Len(commands)
    /\ stdout' = Append(stdout, lit_running_1 \o commands[next_cmd]
                                    \o <<"\n">>)
    /\ running' = next_cmd
    /\ started' = Append(started, commands[next_cmd])
    /\ pc' = "wait"
    /\ UNCHANGED <<FLAGS, fs, intermediate_results_dir, commands, next_cmd,
                   exited, stderr, exit_status, call, ret>>

\* Mutant: the exit status is ignored and the loop goes on.
StageExit_ignores_status ==
    /\ pc = "wait"
    /\ \E status \in 0..MaxExitStatus : exited' = Append(exited, status)
    /\ next_cmd' = next_cmd + 1
    /\ pc' = "loop"
    /\ running' = 0
    /\ UNCHANGED <<FLAGS, fs, intermediate_results_dir, commands, started,
                   stdout, stderr, exit_status, call, ret>>

\* lines 362-365: check_call returns when the subprocess exits with 0 and
\* raises CalledProcessError otherwise, which main raises again
StageExit ==
    /\ pc = "wait"
    /\ \E status \in 0..MaxExitStatus :
          /\ exited' = Append(exited, status)
          /\ IF status = 0
             THEN /\ next_cmd' = next_cmd + 1
                  /\ pc' = "loop"
                  /\ stderr' = stderr
                  /\ exit_status' = exit_status
             ELSE /\ next_cmd' = next_cmd
                  /\ pc' = "raised"
                  /\ stderr' = Append(stderr, "CalledProcessError")
                  /\ exit_status' = 1
    /\ running' = 0
    /\ UNCHANGED <<FLAGS, fs, intermediate_results_dir, commands, started,
                   stdout, call, ret>>

\* line 359: the loop is over and main returns
MainReturn ==
    /\ pc = "loop"
    /\ next_cmd > Len(commands)
    /\ pc' = "returned"
    /\ exit_status' = 0
    /\ UNCHANGED <<FLAGS, fs, intermediate_results_dir, commands, next_cmd,
                   running, started, exited, stdout, stderr, call, ret>>

Next ==
    \/ MainVersion
    \/ MainMissingFlag
    \/ MainValidated
    \/ CheckOrCreateDir
    \/ CreateCommands
    \/ StartStage
    \/ StageExit
    \/ MainReturn

Spec == Init /\ [][Next]_vars

(***************************************************************************)
(* main with FLAGS.model_type assigned by a caller instead of parsed by    *)
(* DEFINE_enum: get_model_ckpt takes any model_type, and a name outside    *)
(* MODEL_TYPE_MAP reaches it only this way.                                *)
(***************************************************************************)
mt_unlisted == <<"R","N","A","S","E","Q">>

InitCkpt == InitMain(ModelTypes \cup {None, Str(mt_unlisted)})

SpecCkpt == InitCkpt /\ [][Next]_vars

(***************************************************************************)
(* The helper functions applied on their own: `call` holds the arguments,  *)
(* `ret` the results returned so far.                                      *)
(***************************************************************************)
\* The strings over `chars` of length at most n.
Texts(chars, n) == UNION {[1..k -> chars] : k \in 0..n}

\* The dicts of at most n items with keys from K and values from V.
Dicts(K, V, n) ==
    {d \in UNION {[1..k -> K \X V] : k \in 0..n} :
        \A i, j \in 1..Len(d) : i # j => d[i][1] # d[j][1]}

IdleFlags == CHOOSE f \in FlagRecords({}, {None}) :
                 f.ref = None /\ f.reads = None /\ f.output_vcf = None

InitCall(calls) ==
    /\ call \in calls
    /\ ret = <<>>
    /\ FLAGS = IdleFlags
    /\ pc = "call"
    /\ fs = {ExistingDir}
    /\ intermediate_results_dir = None
    /\ commands = <<>>
    /\ next_cmd = 0
    /\ running = 0
    /\ started = <<>>
    /\ exited = <<>>
    /\ stdout = <<>>
    /\ stderr = <<>>
    /\ exit_status = -1

\* _add_quotes, applied to a value and then to its own result
MaxQuoteLen == 3

QuoteChars == {"\"", "'", "a"}

QuoteCalls ==
    {[fn |-> "_add_quotes", value |-> v] :
        v \in {Str(s) : s \in Texts(QuoteChars, MaxQuoteLen)}
              \cup {Float(lit_0_12)}}

ApplyAddQuotes ==
    /\ call.fn = "_add_quotes"
    /\ Len(ret) < 2
    /\ ret' = Append(ret, _add_quotes(IF ret = <<>> THEN call.value
                                      ELSE ret[Len(ret)]))
    /\ UNCHANGED <<call, mainVars>>

InitQuote == InitCall(QuoteCalls)

SpecQuote == InitQuote /\ [][ApplyAddQuotes]_vars

\* _extra_args_to_dict, applied to None and to the comma-joined text of up
\* to MaxPairs pieces; a piece is the list of its '='-separated fields
MaxPairs == 3

ParseNames == { <<"a">>, <<"b">>, <<"c">> }

ParseValues == { lit_true, lit_false, <<"T","r","u","E">>,
                 <<"F","A","L","S","E">>, <<"5">> }

ParsePieces ==
    {<<n, v>> : n \in ParseNames, v \in ParseValues}
        \cup { << <<"a">> >>, << <<"b">>, <<"5">>, <<"5">> >> }

pieces_text(pieces) ==
    join(<<",">>, [i \in 1..Len(pieces) |-> join(<<"=">>, pieces[i])])

ParseCalls ==
    {[fn |-> "_extra_args_to_dict", pieces |-> <<>>, extra_args |-> None]}
        \cup {[fn |-> "_extra_args_to_dict", pieces |-> ps,
               extra_args |-> Str(pieces_text(ps))] :
                 ps \in UNION {[1..k -> ParsePieces] : k \in 1..MaxPairs}}

ApplyExtraArgsToDict ==
    /\ call.fn = "_extra_args_to_dict"
    /\ ret = <<>>
    /\ ret' = <<_extra_args_to_dict(call.extra_args)>>
    /\ UNCHANGED <<call, mainVars>>

InitParse == InitCall(ParseCalls)

SpecParse == InitParse /\ [][ApplyExtraArgsToDict]_vars

\* _extend_command_by_args_dict
MaxRenderItems == 3

RenderKeys == { <<"b">>, <<"a","b">>, <<"B">> }

RenderValues == { None, Bool(TRUE), Bool(FALSE), Str(<<"1">>),
                  Str(<<"'","q","'">>), Float(lit_0_12) }

RenderCalls ==
    {[fn |-> "_extend_command_by_args_dict", command |-> c, extra_args |-> d] :
        c \in { <<>>, <<lit_time, opt_mode>> },
        d \in Dicts(RenderKeys, RenderValues, MaxRenderItems)}

ApplyExtendCommand ==
    /\ call.fn = "_extend_command_by_args_dict"
    /\ ret = <<>>
    /\ ret' = <<_extend_command_by_args_dict(call.command, call.extra_args)>>
    /\ UNCHANGED <<call, mainVars>>

InitRender == InitCall(RenderCalls)

SpecRender == InitRender /\ [][ApplyExtendCommand]_vars

\* _update_kwargs_with_warning
MaxMergeItems == 2

MergeKeys == { <<"x">>, <<"y">> }

MergeValues == { None, Bool(FALSE), Str(<<"1">>) }

MergeCalls ==
    {[fn |-> "_update_kwargs_with_warning", kwargs |-> k, extra_args |-> e] :
        k \in Dicts(MergeKeys, MergeValues, MaxMergeItems),
        e \in Dicts(MergeKeys, MergeValues, MaxMergeItems)}

ApplyUpdateKwargs ==
    /\ call.fn = "_update_kwargs_with_warning"
    /\ ret = <<>>
    /\ ret' = <<_update_kwargs_with_warning(call.kwargs, call.extra_args)>>
    /\ UNCHANGED <<call, mainVars>>

InitMerge == InitCall(MergeCalls)

SpecMerge == InitMerge /\ [][ApplyUpdateKwargs]_vars

(***************************************************************************)
(* Properties                                                              *)
(***************************************************************************)
\* The shell words of a command string.
words(cmd) == split(cmd, " ")

has_word(w, x) == \E i \in 1..Len(w) : w[i] = x

\* Whether the words ws occur next to each other, in order, among the words w.
occurs(w, ws) ==
    \E i \in 1..(Len(w) - Len(ws) + 1) : SubSeq(w, i, i + Len(ws) - 1) = ws

\* The words that follow the word `opt` among the words w of a command: the
\* option's arguments.
args_of(w, opt) == {w[i + 1] : i \in {j \in 1..(Len(w) - 1) : w[j] = opt}}

\* The word that follows the first word `opt`.
first_arg(w, opt) ==
    LET i == CHOOSE k \in 1..Len(w) :
                 w[k] = opt /\ \A j \in 1..(k - 1) : w[j] # opt
    IN  w[i + 1]

\* How many of the words w set or clear the flag `key`.
flag_count(w, key) ==
    Cardinality({i \in 1..Len(w) :
                    \/ w[i] = <<"-","-">> \o key
                    \/ w[i] = <<"-","-","n","o">> \o key})

quoted(text) == <<"\"">> \o text \o <<"\"">>

\* A text that starts and ends with the same quote character.
fully_quoted(s) ==
    /\ Len(s) >= 1
    /\ \/ s[1] = "\"" /\ s[Len(s)] = "\""
       \/ s[1] = "'" /\ s[Len(s)] = "'"

\* The binaries of the three stages, in pipeline order.
StageBinaries == <<lit_make_examples_bin, lit_call_variants_bin,
                   lit_postprocess_variants_bin>>

\* s[i..j] is one of the comma-separated pieces of s.
is_piece(s, i, j) ==
    /\ j >= i - 1
    /\ i = 1 \/ s[i - 1] = ","
    /\ j = Len(s) \/ s[j + 1] = ","
    /\ \A k \in i..j : s[k] # ","

\* An extra-args string is malformed when one of its pieces holds no '=' or
\* more than one.
malformed(extra_args) ==
    /\ extra_args # None
    /\ \E i \in 1..(Len(extra_args.v) + 1), j \in 0..Len(extra_args.v) :
          /\ is_piece(extra_args.v, i, j)
          /\ Cardinality({k \in i..j : extra_args.v[k] = "="}) # 1

any_malformed ==
    \/ malformed(FLAGS.make_examples_extra_args)
    \/ malformed(FLAGS.call_variants_extra_args)
    \/ malformed(FLAGS.postprocess_variants_extra_args)

\* The names an extra-args string gives a value to: the text from the start
\* of a piece to its first '='.
named_in(extra_args) ==
    IF extra_args = None THEN {}
    ELSE LET s == extra_args.v
         IN  {SubSeq(s, p[1], p[2] - 1) :
                 p \in {q \in (1..Len(s)) \X (1..Len(s)) :
                           /\ q[1] = 1 \/ s[q[1] - 1] = ","
                           /\ q[1] <= q[2]
                           /\ s[q[2]] = "="
                           /\ \A m \in q[1]..(q[2] - 1) : s[m] \notin {",", "="}}}

all_named == named_in(FLAGS.make_examples_extra_args)
                 \cup named_in(FLAGS.call_variants_extra_args)
                 \cup named_in(FLAGS.postprocess_variants_extra_args)

\* The names of the required flags that are unset.
unset_required ==
    (IF FLAGS.model_type = None THEN {lit_model_type} ELSE {})
        \cup (IF FLAGS.ref = None THEN {lit_ref} ELSE {})
        \cup (IF FLAGS.reads = None THEN {lit_reads} ELSE {})
        \cup (IF FLAGS.output_vcf = None THEN {lit_output_vcf} ELSE {})

\* Validation has passed: no --version, no required flag unset.
validated == FLAGS.version # Bool(TRUE) /\ unset_required = {}

\* main is past create_all_commands.
constructed == validated /\ pc \notin {"main", "check_dir", "create_commands"}

(***************************************************************************)
(* C1: once validation has passed, the stage commands run in the order     *)
(* make_examples, call_variants, postprocess_variants, each at most once;  *)
(* a stage is started only after the one before it exited with status 0;   *)
(* after the first non-zero exit no stage is started and the run has       *)
(* failed; a run that returns has run exactly three stages, all exiting 0. *)
(***************************************************************************)
C1_StagesInOrder ==
    /\ Len(started) <= 3
    /\ started # <<>> => validated
    /\ \A i \in 1..Len(started) :
          LET w == words(started[i])
          IN  \A j \in 1..3 : has_word(w, StageBinaries[j]) <=> (i = j)
    /\ Len(exited) <= Len(started)
    /\ Len(started) <= Len(exited) + 1
    /\ (running # 0) <=> (Len(started) = Len(exited) + 1)
    /\ \A i \in 2..Len(started) : exited[i - 1] = 0
    /\ \A i \in 1..Len(exited) :
          exited[i] # 0 =>
              /\ Len(started) = i
              /\ pc = "raised"
              /\ exit_status = 1
    /\ (pc = "returned" /\ validated) =>
          /\ Len(started) = 3
          /\ exited = <<0, 0, 0>>
          /\ exit_status = 0

\* The second stage exited non-zero after the first exited 0.
C1_Witness ==
    /\ pc = "raised"
    /\ Len(started) = 2
    /\ exited[1] = 0
    /\ exited[2] # 0

(***************************************************************************)
(* C2: without --version, an unset required flag makes main write          *)
(* "--<flag> is required." for an unset flag and end with status 1, with   *)
(* no intermediate directory resolved or created, no command built and no  *)
(* subprocess started.                                                     *)
(***************************************************************************)
C2_MissingFlagExits ==
    (FLAGS.version # Bool(TRUE) /\ unset_required # {} /\ pc # "main") =>
        /\ pc = "exited"
        /\ exit_status = 1
        /\ stderr # <<>>
        /\ \E n \in unset_required :
              stderr[1] = <<"-","-">> \o n \o lit_is_required
        /\ intermediate_results_dir = None
        /\ fs = {ExistingDir}
        /\ commands = <<>>
        /\ started = <<>>
        /\ running = 0

\* --ref alone is unset and the run has ended naming it.
C2_Witness ==
    /\ pc = "exited"
    /\ unset_required = {lit_ref}
    /\ stderr[1] = <<"-","-">> \o lit_ref \o lit_is_required

(***************************************************************************)
(* C3: when one of the three extra-args strings is malformed, no           *)
(* subprocess of any stage is ever started, and command construction       *)
(* raises ValueError, whichever stage the string belongs to.               *)
(***************************************************************************)
C3_MalformedNeverRuns ==
    any_malformed =>
        /\ started = <<>>
        /\ running = 0
        /\ pc \notin {"loop", "wait"}
        /\ constructed =>
              /\ pc = "raised"
              /\ commands = <<>>
              /\ stderr = <<"ValueError">>
              /\ exit_status = 1

\* Construction raised for the malformed string of the last stage alone.
C3_Witness ==
    /\ pc = "raised"
    /\ malformed(FLAGS.postprocess_variants_extra_args)
    /\ ~malformed(FLAGS.make_examples_extra_args)
    /\ ~malformed(FLAGS.call_variants_extra_args)

(***************************************************************************)
(* C5: for PACBIO the make_examples command renders each of                *)
(* realign_reads, vsc_min_fraction_indels and alt_aligned_pileup exactly   *)
(* once, with the user's extra arg when one names the key and with the     *)
(* default (False, 0.12, diff_channels) otherwise; for any other model     *)
(* type a key the user did not name is not rendered.                       *)
(***************************************************************************)
C5_Defaults == << <<key_realign_reads, Bool(FALSE)>>,
                  <<key_vsc_min_fraction_indels, Float(lit_0_12)>>,
                  <<key_alt_aligned_pileup, Str(lit_diff_channels)>> >>

C5_words(k, v) ==
    IF v.t = "bool"
    THEN IF v = Bool(TRUE) THEN << <<"-","-">> \o k >>
         ELSE << <<"-","-","n","o">> \o k >>
    ELSE << <<"-","-">> \o k, quoted(v.v) >>

C5_PacbioDefaults ==
    commands # <<>> =>
        LET cmd == words(commands[1])
            user == _extra_args_to_dict(FLAGS.make_examples_extra_args).value
        IN  IF FLAGS.model_type = Str(mt_PACBIO)
            THEN /\ \A i \in 1..Len(C5_Defaults) :
                       LET k == C5_Defaults[i][1]
                           d == C5_Defaults[i][2]
                           v == IF k \in named_in(FLAGS.make_examples_extra_args)
                                THEN get(user, k) ELSE d
                       IN  /\ flag_count(cmd, k) = 1
                           /\ occurs(cmd, C5_words(k, v))
                           /\ v # d => ~occurs(cmd, C5_words(k, d))
                 /\ key_realign_reads
                        \notin named_in(FLAGS.make_examples_extra_args)
                    => has_word(cmd, <<"-","-","n","o">> \o key_realign_reads)
            ELSE \A i \in 1..Len(C5_Defaults) :
                    C5_Defaults[i][1]
                        \notin named_in(FLAGS.make_examples_extra_args)
                    => flag_count(cmd, C5_Defaults[i][1]) = 0

\* A PACBIO command was built with the user naming alt_aligned_pileup.
C5_Witness ==
    /\ commands # <<>>
    /\ FLAGS.model_type = Str(mt_PACBIO)
    /\ key_alt_aligned_pileup \in named_in(FLAGS.make_examples_extra_args)
    /\ key_vsc_min_fraction_indels
           \notin named_in(FLAGS.make_examples_extra_args)
    /\ occurs(words(commands[1]), << <<"-","-">> \o key_alt_aligned_pileup,
                                     quoted(<<"r","o","w","s">>) >>)

(***************************************************************************)
(* C6: create_all_commands returns three commands, for make_examples,      *)
(* call_variants and postprocess_variants in this order; --examples has    *)
(* the same argument in stages 1 and 2, --infile of stage 3 the argument   *)
(* of --outfile of stage 2, and --gvcf of stage 1 and                      *)
(* --nonvariant_site_tfrecord_path of stage 3 carry one same path when     *)
(* output_gvcf is set and are absent otherwise.                            *)
(***************************************************************************)
C6_threaded ==
    LET c1 == words(commands[1])
        c2 == words(commands[2])
        c3 == words(commands[3])
        opt_gvcf == <<"-","-">> \o key_gvcf
    IN  /\ Len(commands) = 3
        /\ \A j \in 1..3 :
              /\ has_word(c1, StageBinaries[j]) <=> (j = 1)
              /\ has_word(c2, StageBinaries[j]) <=> (j = 2)
              /\ has_word(c3, StageBinaries[j]) <=> (j = 3)
        /\ Cardinality(args_of(c1, opt_examples)) = 1
        /\ args_of(c2, opt_examples) = args_of(c1, opt_examples)
        /\ Cardinality(args_of(c2, opt_outfile)) = 1
        /\ args_of(c3, opt_infile) = args_of(c2, opt_outfile)
        /\ IF FLAGS.output_gvcf # None
           THEN /\ Cardinality(args_of(c1, opt_gvcf)) = 1
                /\ args_of(c3, opt_nonvariant_site_tfrecord_path)
                       = args_of(c1, opt_gvcf)
           ELSE /\ args_of(c1, opt_gvcf) = {}
                /\ args_of(c3, opt_nonvariant_site_tfrecord_path) = {}

\* C6 as claimed: for every run that builds its commands.
C6_Original == commands # <<>> => C6_threaded

\* The options the builders thread between the stages.
C6_ThreadedNames ==
    { key_gvcf, SubSeq(opt_examples, 3, Len(opt_examples)),
      SubSeq(opt_outfile, 3, Len(opt_outfile)),
      SubSeq(opt_infile, 3, Len(opt_infile)),
      SubSeq(opt_nonvariant_site_tfrecord_path, 3,
             Len(opt_nonvariant_site_tfrecord_path)) }

\* C6 as amended: for the runs whose extra-args strings name none of the
\* threaded options examples, gvcf, outfile, infile and
\* nonvariant_site_tfrecord_path.
C6_ThreadedUnlessOverridden ==
    (commands # <<>> /\ all_named \cap C6_ThreadedNames = {}) => C6_threaded

\* Commands were built with output_gvcf set, extra args given and none of
\* them naming a threaded option.
C6_Witness ==
    /\ commands # <<>>
    /\ FLAGS.output_gvcf # None
    /\ all_named # {}
    /\ all_named \cap C6_ThreadedNames = {}

(***************************************************************************)
(* C10: --checkpoint of the call_variants stage is customized_model when   *)
(* one is given, whatever the model type, and the table's entry for the    *)
(* model type otherwise; a model type the table lacks, with no             *)
(* customized_model, makes command construction raise, before any          *)
(* subprocess is started.                                                  *)
(***************************************************************************)
C10_Table(model_type) ==
    CASE model_type = Str(mt_WGS) -> ckpt_WGS
      [] model_type = Str(mt_WES) -> ckpt_WES
      [] model_type = Str(mt_PACBIO) -> ckpt_PACBIO
      [] model_type = Str(mt_HYBRID_PACBIO_ILLUMINA)
             -> ckpt_HYBRID_PACBIO_ILLUMINA

C10_CheckpointResolution ==
    constructed =>
        IF FLAGS.customized_model # None \/ FLAGS.model_type \in ModelTypes
        THEN /\ ~any_malformed => commands # <<>>
             /\ commands # <<>> =>
                   /\ has_word(words(commands[2]), opt_checkpoint)
                   /\ first_arg(words(commands[2]), opt_checkpoint) =
                          quoted(IF FLAGS.customized_model # None
                                 THEN FLAGS.customized_model.v
                                 ELSE C10_Table(FLAGS.model_type))
        ELSE /\ pc = "raised"
             /\ commands = <<>>
             /\ started = <<>>
             /\ exit_status = 1
             /\ ~malformed(FLAGS.make_examples_extra_args)
                    => stderr = <<"KeyError">>

\* Construction raised KeyError for a model type the table lacks.
C10_Witness ==
    /\ pc = "raised"
    /\ FLAGS.model_type = Str(mt_unlisted)
    /\ FLAGS.customized_model = None
    /\ stderr = <<"KeyError">>
    /\ started = <<>>

(***************************************************************************)
(* C8: _add_quotes returns a fully quoted string unchanged and wraps every *)
(* other value in one pair of double quotes; applied to its own result it  *)
(* changes nothing.                                                        *)
(***************************************************************************)
C8_AddQuotes ==
    (call.fn = "_add_quotes" /\ ret # <<>>) =>
        /\ ret[1] = IF call.value.t = "str" /\ fully_quoted(call.value.v)
                    THEN call.value
                    ELSE Str(quoted(call.value.v))
        /\ Len(ret) = 2 => ret[2] = ret[1]

\* An unquoted string was wrapped once and then left alone.
C8_Witness ==
    /\ call.fn = "_add_quotes"
    /\ call.value = Str(<<"'", "a">>)
    /\ Len(ret) = 2
    /\ ret[2] = Str(<<"\"", "'", "a", "\"">>)

(***************************************************************************)
(* C9: _extra_args_to_dict maps None to the empty dict, and the text of    *)
(* name=value pieces to a dict with one entry per name, holding True or    *)
(* False for a value that is "true" or "false" in any letter case and the  *)
(* value's text otherwise.                                                 *)
(***************************************************************************)
C9_value(text) ==
    IF /\ Len(text) = 4
       /\ text[1] \in {"t", "T"} /\ text[2] \in {"r", "R"}
       /\ text[3] \in {"u", "U"} /\ text[4] \in {"e", "E"}
    THEN Bool(TRUE)
    ELSE IF /\ Len(text) = 5
            /\ text[1] \in {"f", "F"} /\ text[2] \in {"a", "A"}
            /\ text[3] \in {"l", "L"} /\ text[4] \in {"s", "S"}
            /\ text[5] \in {"e", "E"}
    THEN Bool(FALSE)
    ELSE Str(text)

C9_ExtraArgsToDict ==
    (call.fn = "_extra_args_to_dict" /\ ret # <<>>) =>
        LET r == ret[1]
            ps == call.pieces
        IN  IF call.extra_args = None
            THEN r.raised = "" /\ r.value = <<>>
            ELSE (\A i \in 1..Len(ps) : Len(ps[i]) = 2) =>
                    /\ r.raised = ""
                    /\ keys(r.value) = {ps[i][1] : i \in 1..Len(ps)}
                    /\ Len(r.value) = Cardinality(keys(r.value))
                    /\ \A i \in 1..Len(ps) :
                          (\A j \in (i + 1)..Len(ps) : ps[j][1] # ps[i][1])
                          => get(r.value, ps[i][1]) = C9_value(ps[i][2])

\* "a=true,b=false,c=5" gave {a: True, b: False, c: "5"}.
C9_Witness ==
    /\ call.fn = "_extra_args_to_dict"
    /\ call.extra_args = Str(<<"a","=","t","r","u","e",",",
                               "b","=","f","a","l","s","e",",","c","=","5">>)
    /\ ret = << [raised |-> "",
                 value |-> << << <<"a">>, Bool(TRUE) >>,
                              << <<"b">>, Bool(FALSE) >>,
                              << <<"c">>, Str(<<"5">>) >> >>] >>

(***************************************************************************)
(* C7: _extend_command_by_args_dict keeps the tokens it is given and       *)
(* appends, in lexicographic key order, nothing for a None value, --k for  *)
(* True, --nok for False, and --k with the quoted value otherwise.         *)
(***************************************************************************)
\* The keys of RenderKeys in lexicographic order.
C7_KeyOrder == << <<"B">>, <<"a","b">>, <<"b">> >>

C7_words(k, v) ==
    IF v = None THEN <<>>
    ELSE IF v = Bool(TRUE) THEN << <<"-","-">> \o k >>
    ELSE IF v = Bool(FALSE) THEN << <<"-","-","n","o">> \o k >>
    ELSE << <<"-","-">> \o k,
            IF v.t = "str" /\ fully_quoted(v.v) THEN v.v ELSE quoted(v.v) >>

RECURSIVE C7_expected(_, _)
C7_expected(order, d) ==
    IF order = <<>> THEN <<>>
    ELSE (IF has_key(d, order[1]) THEN C7_words(order[1], get(d, order[1]))
          ELSE <<>>)
         \o C7_expected(Tail(order), d)

C7_ExtendCommand ==
    (call.fn = "_extend_command_by_args_dict" /\ ret # <<>>) =>
        /\ SubSeq(ret[1], 1, Len(call.command)) = call.command
        /\ ret[1] = call.command \o C7_expected(C7_KeyOrder, call.extra_args)

\* Three keys given out of order: one False, one None, one a string.
C7_Witness ==
    /\ call.fn = "_extend_command_by_args_dict"
    /\ call.command # <<>>
    /\ call.extra_args = << << <<"b">>, Bool(FALSE) >>,
                            << <<"a","b">>, None >>,
                            << <<"B">>, Str(<<"1">>) >> >>
    /\ ret = << call.command \o << <<"-","-","B">>, <<"\"","1","\"">>,
                                   <<"-","-","n","o","b">> >> >>

(***************************************************************************)
(* C4: after _update_kwargs_with_warning a key of both mappings holds the  *)
(* overlay's value and a warning names it if and only if the two values    *)
(* differ; a key of the base alone keeps its value; a key of the overlay   *)
(* alone is added without a warning.                                       *)
(***************************************************************************)
C4_warned(printed, k) ==
    LET head == lit_warning_prefix \o k \o lit_warning_mid1
    IN  \E i \in 1..Len(printed) :
           /\ Len(printed[i]) >= Len(head)
           /\ SubSeq(printed[i], 1, Len(head)) = head

C4_WarnsIffDifferent ==
    (call.fn = "_update_kwargs_with_warning" /\ ret # <<>>) =>
        LET base == call.kwargs
            over == call.extra_args
            r == ret[1]
        IN  /\ keys(r.kwargs) = keys(base) \cup keys(over)
            /\ \A k \in keys(base) \cap keys(over) :
                  /\ get(r.kwargs, k) = get(over, k)
                  /\ C4_warned(r.printed, k) <=> (get(base, k) # get(over, k))
            /\ \A k \in keys(base) \ keys(over) :
                  /\ get(r.kwargs, k) = get(base, k)
                  /\ ~C4_warned(r.printed, k)
            /\ \A k \in keys(over) \ keys(base) :
                  /\ get(r.kwargs, k) = get(over, k)
                  /\ ~C4_warned(r.printed, k)

====
